---- MODULE Spec2Model ----
(***************************************************************************)
(* A model of the node-api binding layer: the status/error bridge, the     *)
(* handle primitives, create_function and its trampoline (napi.rs), the    *)
(* napi_module! / register! macros (lib.rs) and the hello-world add-on.    *)
(* The host runtime is the environment: every host call answers with a     *)
(* status chosen by the host and leaves that status in the context's       *)
(* single last-error slot.                                                 *)
(***************************************************************************)
EXTENDS Integers, Sequences, FiniteSets, TLC

VARIABLES phase, declared, reg_i, exports, created, loader, last_error, last

vars == <<phase, declared, reg_i, exports, created, loader, last_error, last>>

(***************************************************************************)
(* Bounds of the model.                                                    *)
(***************************************************************************)
\* status values past napi_status_last that the host may hand back
MaxUnknownStatus == 2
\* length of the file and module names given to module_register
MaxStrLen == 2
\* number of export lines in the register! declaration
MaxExports == 2
\* arguments of a short host call, and arguments past the buffer capacity
MaxShortArgs == 2
MaxExcessArgs == 1

(***************************************************************************)
(* napi_status, as matched in napi.rs.                                     *)
(***************************************************************************)
napi_ok == 0
napi_invalid_arg == 1
napi_object_expected == 2
napi_string_expected == 3
napi_name_expected == 4
napi_function_expected == 5
napi_number_expected == 6
napi_boolean_expected == 7
napi_array_expected == 8
napi_generic_failure == 9
napi_pending_exception == 10
napi_cancelled == 11
napi_status_last == 12

Status == napi_ok .. (napi_status_last + MaxUnknownStatus)

NapiErrorType ==
    {"InvalidArg", "ObjectExpected", "StringExpected", "NameExpected",
     "FunctionExpected", "NumberExpected", "BooleanExpected", "ArrayExpected",
     "GenericFailure", "PendingException", "Cancelled", "StatusLast"}

\* a slip in the match: the sentinel arm is dropped, so it falls to the wildcard
NapiErrorType_from_NoSentinelArm(s) ==
    CASE s = napi_invalid_arg -> "InvalidArg"
      [] s = napi_object_expected -> "ObjectExpected"
      [] s = napi_string_expected -> "StringExpected"
      [] s = napi_name_expected -> "NameExpected"
      [] s = napi_function_expected -> "FunctionExpected"
      [] s = napi_number_expected -> "NumberExpected"
      [] s = napi_boolean_expected -> "BooleanExpected"
      [] s = napi_array_expected -> "ArrayExpected"
      [] s = napi_generic_failure -> "GenericFailure"
      [] s = napi_pending_exception -> "PendingException"
      [] s = napi_cancelled -> "Cancelled"
      [] OTHER -> "GenericFailure"

\* impl From<napi_status> for NapiErrorType
NapiErrorType_from(s) ==
    CASE s = napi_invalid_arg -> "InvalidArg"
      [] s = napi_object_expected -> "ObjectExpected"
      [] s = napi_string_expected -> "StringExpected"
      [] s = napi_name_expected -> "NameExpected"
      [] s = napi_function_expected -> "FunctionExpected"
      [] s = napi_number_expected -> "NumberExpected"
      [] s = napi_boolean_expected -> "BooleanExpected"
      [] s = napi_array_expected -> "ArrayExpected"
      [] s = napi_generic_failure -> "GenericFailure"
      [] s = napi_pending_exception -> "PendingException"
      [] s = napi_cancelled -> "Cancelled"
      [] s = napi_status_last -> "StatusLast"
      [] OTHER -> "GenericFailure"

(***************************************************************************)
(* The host: values, messages and the last-error slot of the context.      *)
(***************************************************************************)
HostValue(t, n, s) == [type |-> t, num |-> n, str |-> s]
Undefined == HostValue("undefined", 0, "")
Uninitialized == HostValue("uninitialized", 0, "")
NoValue == HostValue("none", 0, "")

\* samples of what the host reports with a failure: its static message
\* (ASCII bytes before the NUL) and its engine error code
HostErrorDetails == {[msg |-> <<73>>, engine |-> 0], [msg |-> <<79, 69>>, engine |-> 7]}

\* napi_extended_error_info as the host keeps it in the context
ExtendedErrorInfo(m, e, c) ==
    [error_message |-> m, engine_error_code |-> e, error_code |-> c]
ClearedErrorInfo == ExtendedErrorInfo(<<>>, 0, napi_ok)

\* what one host call answers: its status, and the slot it leaves behind
HostAnswers ==
    {[status |-> napi_ok, slot |-> ClearedErrorInfo]} \cup
    {[status |-> s, slot |-> ExtendedErrorInfo(d.msg, d.engine, s)] :
        s \in Status \ {napi_ok}, d \in HostErrorDetails}

(***************************************************************************)
(* The status/error bridge.                                                *)
(***************************************************************************)
\* CStr::to_string_lossy: a byte that is no ASCII becomes U+FFFD
ToStringLossy(bytes) ==
    [i \in 1..Len(bytes) |-> IF bytes[i] < 128 THEN bytes[i] ELSE 65533]

NapiError(m, e, k) ==
    [error_message |-> m, engine_error_code |-> e, error_code |-> k]
NoError == NapiError(<<>>, 0, "none")

\* impl From<napi_extended_error_info> for NapiError
NapiError_from(error) ==
    NapiError(ToStringLossy(error.error_message),
              error.engine_error_code,
              NapiErrorType_from(error.error_code))

\* Result values of the layer; a panic is the third way out of a function
Ok(v, c) == [tag |-> "Ok", val |-> v, err |-> NoError, panic |-> "", calls |-> c]
Err(e, c) == [tag |-> "Err", val |-> NoValue, err |-> e, panic |-> "", calls |-> c]
Panic(p, c) == [tag |-> "Panic", val |-> NoValue, err |-> NoError, panic |-> p, calls |-> c]

\* get_last_error_info: one host call, answered with qstatus
get_last_error_info(slot, qstatus) ==
    IF qstatus = napi_ok
    THEN [tag |-> "Ok", info |-> slot, status |-> qstatus]
    ELSE [tag |-> "Err", info |-> ClearedErrorInfo, status |-> qstatus]

\* get_last_napi_error: map / map_err over get_last_error_info
get_last_napi_error(slot, qstatus) ==
    LET r == get_last_error_info(slot, qstatus)
    IN  IF r.tag = "Ok"
        THEN [tag |-> "Ok", error |-> NapiError_from(r.info), kind |-> "none"]
        ELSE [tag |-> "Err", error |-> NoError, kind |-> NapiErrorType_from(r.status)]

\* the bridge building the error from the status alone, with no query of
\* the last-error record
napi_either_NoQuery(slot, status, val, qstatus) ==
    IF status = napi_ok
    THEN Ok(val, <<>>)
    ELSE Err(NapiError(<<>>, 0, NapiErrorType_from(status)), <<>>)

\* napi_either: slot is the context's last-error slot, qstatus the status the
\* host gives the last-error query should the bridge issue it
napi_either(slot, status, val, qstatus) ==
    IF status = napi_ok
    THEN Ok(val, <<>>)
    ELSE LET r == get_last_napi_error(slot, qstatus)
         IN  IF r.tag = "Ok"
             THEN Err(r.error, <<"napi_get_last_error_info">>)
             ELSE Panic("error fetching last napi error",
                        <<"napi_get_last_error_info">>)

\* a host call issued before the bridge: its name goes first in the call log
AfterHostCall(name, r) == [r EXCEPT !.calls = <<name>> \o r.calls]

(***************************************************************************)
(* Handle primitives: one host constructor call, then the bridge.          *)
(***************************************************************************)
OutParam(ans, v) == IF ans.status = napi_ok THEN v ELSE Uninitialized

get_undefined(ans, qstatus) ==
    AfterHostCall("napi_get_undefined",
        napi_either(ans.slot, ans.status, OutParam(ans, Undefined), qstatus))

get_null(ans, qstatus) ==
    AfterHostCall("napi_get_null",
        napi_either(ans.slot, ans.status,
                    OutParam(ans, HostValue("null", 0, "")), qstatus))

get_global(ans, qstatus) ==
    AfterHostCall("napi_get_global",
        napi_either(ans.slot, ans.status,
                    OutParam(ans, HostValue("global", 0, "")), qstatus))

get_boolean(value, ans, qstatus) ==
    AfterHostCall("napi_get_boolean",
        napi_either(ans.slot, ans.status,
                    OutParam(ans, HostValue("boolean", IF value THEN 1 ELSE 0, "")),
                    qstatus))

create_object(ans, qstatus) ==
    AfterHostCall("napi_create_object",
        napi_either(ans.slot, ans.status,
                    OutParam(ans, HostValue("object", 0, "")), qstatus))

create_array(ans, qstatus) ==
    AfterHostCall("napi_create_array",
        napi_either(ans.slot, ans.status,
                    OutParam(ans, HostValue("array", 0, "")), qstatus))

array_with_length(size, ans, qstatus) ==
    AfterHostCall("napi_create_array_with_length",
        napi_either(ans.slot, ans.status,
                    OutParam(ans, HostValue("array", size, "")), qstatus))

create_number(value, ans, qstatus) ==
    AfterHostCall("napi_create_number",
        napi_either(ans.slot, ans.status,
                    OutParam(ans, HostValue("number", value, "")), qstatus))


PrimitiveCalls ==
    ({"get_undefined", "get_null", "get_global", "create_object", "create_array"}
        \X {0})
    \cup ({"get_boolean"} \X {0, 1})
    \cup ({"array_with_length"} \X {0, 23})
    \cup ({"create_number"} \X {21, 23, 42})

PrimitiveResult(p, arg, ans, qstatus) ==
    CASE p = "get_undefined" -> get_undefined(ans, qstatus)
      [] p = "get_null" -> get_null(ans, qstatus)
      [] p = "get_global" -> get_global(ans, qstatus)
      [] p = "get_boolean" -> get_boolean(arg > 0, ans, qstatus)
      [] p = "create_object" -> create_object(ans, qstatus)
      [] p = "create_array" -> create_array(ans, qstatus)
      [] p = "array_with_length" -> array_with_length(arg, ans, qstatus)
      [] p = "create_number" -> create_number(arg, ans, qstatus)

\* the statuses the host may give the last-error query that follows ans
QueryStatuses(ans) == IF ans.status = napi_ok THEN {napi_ok} ELSE Status

(***************************************************************************)
(* create_function and the object-attachment path.                         *)
(***************************************************************************)
\* names that carry an embedded NUL (no identifier does)
NamesWithNul == {"nul\\0name"}

\* the host's record of a native function: callback and user-data pointer;
\* user_data is the address of create_function's own parameter f
FunctionValue(utf8name) == HostValue("function", 0, utf8name)

create_function(utf8name, ans, qstatus) ==
    IF utf8name \in NamesWithNul
    THEN Panic("unwrap on Err: NulError", <<>>)
    ELSE AfterHostCall("napi_create_function",
            napi_either(ans.slot, ans.status,
                        OutParam(ans, FunctionValue(utf8name)), qstatus))

\* a host object: its properties in insertion order
HasKey(obj, name) == \E i \in 1..Len(obj) : obj[i].name = name
ObjectSet(obj, name, value) ==
    IF HasKey(obj, name)
    THEN [i \in 1..Len(obj) |->
            IF obj[i].name = name THEN [name |-> name, value |-> value] ELSE obj[i]]
    ELSE Append(obj, [name |-> name, value |-> value])
Keys(obj) == [i \in 1..Len(obj) |-> obj[i].name]

\* set_named_property: the host attaches value under name, then the bridge
set_named_property(obj, name, value, ans, qstatus) ==
    [res |-> AfterHostCall("napi_set_named_property",
                napi_either(ans.slot, ans.status, Undefined, qstatus)),
     obj |-> IF ans.status = napi_ok THEN ObjectSet(obj, name, value) ELSE obj]

(***************************************************************************)
(* register!: one statement per export line, in declaration order.         *)
(***************************************************************************)
ExportNames == {"add", "hello"}
ExportLists == UNION {[1..n -> ExportNames] : n \in 0..MaxExports}

\* Result::expect swallowing the error instead of stopping
Expect_ErrIgnored(r, msg) ==
    IF r.tag = "Err" THEN Ok(Undefined, r.calls) ELSE r

\* Result::expect: Ok passes, Err panics with msg; a panic below passes up
Expect(r, msg) ==
    IF r.tag = "Err" THEN Panic(msg, r.calls) ELSE r

\* the statement with stringify!(function) in place of stringify!($function),
\* the slip the function! macro makes with its $name
RegisterStatement_LiteralName(obj, name, cans, cq, sans, sq) ==
    LET f == Expect(create_function(name, cans, cq), "error creating function")
    IN  IF f.tag = "Panic"
        THEN [res |-> f, obj |-> obj, created |-> <<>>, slot |-> cans.slot]
        ELSE LET s == set_named_property(obj, "function", f.val, sans, sq)
                 e == Expect(s.res, "error attaching function")
             IN  [res |-> [e EXCEPT !.calls = f.calls \o e.calls],
                  obj |-> s.obj,
                  created |-> IF cans.status = napi_ok THEN <<name>> ELSE <<>>,
                  slot |-> sans.slot]

\* one expansion of the repetition body of register!, for the export name
RegisterStatement(obj, name, cans, cq, sans, sq) ==
    LET f == Expect(create_function(name, cans, cq), "error creating function")
    IN  IF f.tag = "Panic"
        THEN [res |-> f, obj |-> obj, created |-> <<>>, slot |-> cans.slot]
        ELSE LET s == set_named_property(obj, name, f.val, sans, sq)
                 e == Expect(s.res, "error attaching function")
             IN  [res |-> [e EXCEPT !.calls = f.calls \o e.calls],
                  obj |-> s.obj,
                  created |-> IF cans.status = napi_ok THEN <<name>> ELSE <<>>,
                  slot |-> sans.slot]

(***************************************************************************)
(* module_register and the napi_module! load hook.                         *)
(***************************************************************************)
NAPI_MODULE_VERSION == 1

Range(s) == {s[i] : i \in 1..Len(s)}
\* native strings over a letter and the NUL character
Strings == UNION {[1..n -> {0, 97}] : n \in 0..MaxStrLen}

\* CString::new: NulError on an embedded NUL, else the bytes plus a final NUL
CString_new(s) ==
    IF 0 \in Range(s)
    THEN [tag |-> "Err", bytes |-> <<>>]
    ELSE [tag |-> "Ok", bytes |-> Append(s, 0)]

\* CString::new(..)?.as_ptr(): the CString is a temporary of the let
\* statement, so the pointer outlives the bytes it points to
DroppedCStringPtr(c) == [bytes |-> c.bytes, live |-> FALSE]

NapiModules ==
    [version : {NAPI_MODULE_VERSION}, flags : {0}, filename : Strings,
     register_func : {"None", "register"}, modname : Strings]

\* module_register with the module name's NulError dropped (unwrap_or_default)
module_register_ModnameUnchecked(mod_) ==
    LET f == CString_new(mod_.filename)
        m == CString_new(mod_.modname)
    IN  IF f.tag = "Err"
        THEN [tag |-> "Err", panic |-> "", handed |-> <<>>]
        ELSE IF mod_.register_func = "None"
        THEN [tag |-> "Panic", panic |-> "unwrap on None", handed |-> <<>>]
        ELSE [tag |-> "Ok", panic |-> "",
              handed |-> <<[nm_version |-> mod_.version,
                            nm_flags |-> mod_.flags,
                            nm_filename |-> DroppedCStringPtr(f),
                            nm_register_func |-> mod_.register_func,
                            nm_modname |-> DroppedCStringPtr(m)]>>]

\* module_register: the fields of the descriptor are evaluated in order
module_register(mod_) ==
    LET f == CString_new(mod_.filename)
        m == CString_new(mod_.modname)
    IN  IF f.tag = "Err"
        THEN [tag |-> "Err", panic |-> "", handed |-> <<>>]
        ELSE IF mod_.register_func = "None"
        THEN [tag |-> "Panic", panic |-> "unwrap on None", handed |-> <<>>]
        ELSE IF m.tag = "Err"
        THEN [tag |-> "Err", panic |-> "", handed |-> <<>>]
        ELSE [tag |-> "Ok", panic |-> "",
              handed |-> <<[nm_version |-> mod_.version,
                            nm_flags |-> mod_.flags,
                            nm_filename |-> DroppedCStringPtr(f),
                            nm_register_func |-> mod_.register_func,
                            nm_modname |-> DroppedCStringPtr(m)]>>]

\* stringify!($module_name) of the add-on: an identifier ("hw" here)
ModuleName == <<104, 119>>

\* __load_napi_module: module_register(...).expect("error registering module")
load_napi_module(module) ==
    LET r == module_register([version |-> NAPI_MODULE_VERSION, flags |-> 0,
                              filename |-> module, register_func |-> "register",
                              modname |-> module])
    IN  IF r.tag = "Err"
        THEN [r EXCEPT !.tag = "Panic", !.panic = "error registering module"]
        ELSE r

(***************************************************************************)
(* The hello-world add-on.                                                 *)
(***************************************************************************)
add(a) == a + a
hello == [foo |-> "HELLO", bar |-> 23]

\* the argument type each exported function declares
ArgTypeOf(name) == IF name = "add" THEN "u64" ELSE "HelloArgs"

(***************************************************************************)
(* The trampoline: create_function::wrapper.                               *)
(***************************************************************************)
ArgBufCapacity == 16

Number(n) == HostValue("number", n, "")
ArgValues == {Number(21), Undefined}
ShortArgLists == UNION {[1..n -> ArgValues] : n \in 0..MaxShortArgs}
LongArgLists ==
    {[i \in 1..n |-> Number(21)] :
        n \in ArgBufCapacity..(ArgBufCapacity + MaxExcessArgs)}
ArgLists == ShortArgLists \cup LongArgLists

\* what the stack buffer may hold where the host wrote nothing
GarbageValues == {Uninitialized, Number(21)}

\* the host's answers to napi_get_cb_info
CbInfoAnswers ==
    {[status |-> napi_ok, slot |-> ClearedErrorInfo],
     [status |-> napi_invalid_arg,
      slot |-> ExtendedErrorInfo(<<73>>, 0, napi_invalid_arg)]}

\* napi_get_cb_info: on success the host stores the argument count in argc,
\* fills the slots it was offered (undefined past the arguments) and stores
\* the user-data pointer through data; on failure it writes nothing
napi_get_cb_info(args, argc_in, user_data, cbans, garbage) ==
    IF cbans.status = napi_ok
    THEN [argc |-> Len(args),
          argv |-> [i \in 1..argc_in |->
                      IF i <= Len(args) THEN args[i] ELSE Undefined],
          data |-> user_data]
    ELSE [argc |-> argc_in,
          argv |-> [i \in 1..argc_in |-> garbage],
          data |-> "unwritten"]

\* HelloArgs: built from any slice, which it ignores
from_napi_args_HelloArgs(slice) == [tag |-> "Ok", typed |-> 0]

\* u64: decodes position 0 of the slice, which must hold a number
from_napi_args_u64(slice) ==
    IF Len(slice) >= 1 /\ slice[1].type = "number"
    THEN [tag |-> "Ok", typed |-> slice[1].num]
    ELSE [tag |-> "Err", typed |-> 0]

\* T::from_napi_args over the slice of host values
from_napi_args(T, slice) ==
    IF T = "HelloArgs"
    THEN from_napi_args_HelloArgs(slice)
    ELSE from_napi_args_u64(slice)

\* the local callback after napi_get_cb_info: the host stores the user-data
\* pointer into the temporary that holds the transmuted address, and the
\* Option itself keeps the None it was initialised with
CallbackAfterCbInfo(info, closure) == "None"

\* the closure call of the match on callback
InvokeCallback(callback, typed) ==
    IF callback = "None" THEN <<>> ELSE <<[closure |-> callback, args |-> typed]>>

TrampolineResult(tag, val, panic, calls, conv, invoked, handed, slot) ==
    [tag |-> tag, val |-> val, panic |-> panic, calls |-> calls,
     conv |-> conv, invoked |-> invoked, handed |-> handed, slot |-> slot]
NotConverted == [tag |-> "none", typed |-> 0]

\* wrapper::<F, T>: closure names F, its argument type is T
wrapper(closure, T, args, cbans, garbage, uans, uq) ==
    LET info == napi_get_cb_info(args, ArgBufCapacity, closure, cbans, garbage)
        callback == CallbackAfterCbInfo(info, closure)
    IN  IF info.argc > ArgBufCapacity
        THEN TrampolineResult("Panic", NoValue, "slice index out of range",
                              <<"napi_get_cb_info">>, NotConverted, <<>>, <<>>,
                              cbans.slot)
        ELSE
        LET slice == SubSeq(info.argv, 1, info.argc)
            conv == from_napi_args(T, slice)
        IN  IF conv.tag = "Err"
            THEN TrampolineResult("Panic", NoValue, "unwrap on Err: from_napi_args",
                                  <<"napi_get_cb_info">>, conv, <<>>, slice,
                                  cbans.slot)
            ELSE
            LET invoked == InvokeCallback(callback, conv.typed)
                u == get_undefined(uans, uq)
            IN  IF u.tag = "Ok"
                THEN TrampolineResult("Returned", u.val, "",
                                      <<"napi_get_cb_info">> \o u.calls,
                                      conv, invoked, slice, uans.slot)
                ELSE TrampolineResult("Panic", NoValue,
                                      IF u.tag = "Err" THEN "unwrap on Err: get_undefined"
                                                       ELSE u.panic,
                                      <<"napi_get_cb_info">> \o u.calls,
                                      conv, invoked, slice, uans.slot)

(***************************************************************************)
(* IntoNapiValue: the primitive conversions and that of HelloReturn.       *)
(***************************************************************************)
OkAnswer == [status |-> napi_ok, slot |-> ClearedErrorInfo]

\* String::into_napi_value: the host's UTF-8 string constructor, then the
\* bridge
String_into_napi_value(self, ans, qstatus) ==
    AfterHostCall("napi_create_string_utf8",
        napi_either(ans.slot, ans.status,
                    OutParam(ans, HostValue("string", 0, self)), qstatus))

\* u64::into_napi_value: the value as a double (exact below 2^53) through
\* the number constructor
u64_into_napi_value(self, ans, qstatus) == create_number(self, ans, qstatus)

\* the host calls HelloReturn's conversion can make, in program order
HelloReturnSteps == 5

\* what the host answers to each of those calls, and to the last-error query
\* after it: at most one call fails, since no call follows a failure that
\* the host could answer
HostScripts ==
    {[i \in 1..HelloReturnSteps |-> [ans |-> OkAnswer, q |-> napi_ok]]} \cup
    {[i \in 1..HelloReturnSteps |->
        IF i = k THEN [ans |-> bad, q |-> q]
                 ELSE [ans |-> OkAnswer, q |-> napi_ok]] :
        k \in 1..HelloReturnSteps, bad \in HostAnswers \ {OkAnswer}, q \in Status}

\* outcome of the conversion: its result with the host calls it issued, the
\* properties of the object it created in the host, and the last-error slot
Converted(res, calls, object, slot) ==
    [res |-> [res EXCEPT !.calls = calls], object |-> object, slot |-> slot]

\* the conversion with the two attachments in the other order
HelloReturn_into_napi_value_BarFirst(self, h) ==
    LET object == create_object(h[1].ans, h[1].q)
    IN  IF object.tag # "Ok"
        THEN Converted(object, object.calls, <<>>, h[1].ans.slot)
        ELSE
        LET foo == String_into_napi_value(self.foo, h[2].ans, h[2].q)
            c2 == object.calls \o foo.calls
        IN  IF foo.tag # "Ok"
            THEN Converted(foo, c2, <<>>, h[2].ans.slot)
            ELSE
            LET bar == u64_into_napi_value(self.bar, h[3].ans, h[3].q)
                c3 == c2 \o bar.calls
            IN  IF bar.tag # "Ok"
                THEN Converted(bar, c3, <<>>, h[3].ans.slot)
                ELSE
                LET s1 == set_named_property(<<>>, "bar", bar.val,
                                             h[4].ans, h[4].q)
                    c4 == c3 \o s1.res.calls
                IN  IF s1.res.tag # "Ok"
                    THEN Converted(s1.res, c4, s1.obj, h[4].ans.slot)
                    ELSE
                    LET s2 == set_named_property(s1.obj, "foo", foo.val,
                                                 h[5].ans, h[5].q)
                        c5 == c4 \o s2.res.calls
                    IN  IF s2.res.tag # "Ok"
                        THEN Converted(s2.res, c5, s2.obj, h[5].ans.slot)
                        ELSE Converted(object, c5, s2.obj, h[5].ans.slot)

\* impl IntoNapiValue for HelloReturn: every statement but the last ends in
\* the ? operator, which returns at once what is not Ok
HelloReturn_into_napi_value(self, h) ==
    LET object == create_object(h[1].ans, h[1].q)
    IN  IF object.tag # "Ok"
        THEN Converted(object, object.calls, <<>>, h[1].ans.slot)
        ELSE
        LET foo == String_into_napi_value(self.foo, h[2].ans, h[2].q)
            c2 == object.calls \o foo.calls
        IN  IF foo.tag # "Ok"
            THEN Converted(foo, c2, <<>>, h[2].ans.slot)
            ELSE
            LET bar == u64_into_napi_value(self.bar, h[3].ans, h[3].q)
                c3 == c2 \o bar.calls
            IN  IF bar.tag # "Ok"
                THEN Converted(bar, c3, <<>>, h[3].ans.slot)
                ELSE
                LET s1 == set_named_property(<<>>, "foo", foo.val,
                                             h[4].ans, h[4].q)
                    c4 == c3 \o s1.res.calls
                IN  IF s1.res.tag # "Ok"
                    THEN Converted(s1.res, c4, s1.obj, h[4].ans.slot)
                    ELSE
                    LET s2 == set_named_property(s1.obj, "bar", bar.val,
                                                 h[5].ans, h[5].q)
                        c5 == c4 \o s2.res.calls
                    IN  IF s2.res.tag # "Ok"
                        THEN Converted(s2.res, c5, s2.obj, h[5].ans.slot)
                        ELSE Converted(object, c5, s2.obj, h[5].ans.slot)

(***************************************************************************)
(* The state machine: load, registration, then calls from the host.        *)
(***************************************************************************)
NoOp == [op |-> "none"]

Init ==
    /\ phase = "unloaded"
    /\ declared \in ExportLists
    /\ reg_i = 1
    /\ exports = <<>>
    /\ created = <<>>
    /\ loader = <<>>
    /\ last_error = ClearedErrorInfo
    /\ last = NoOp

\* some native code calls the public module_register with a module of its own
ModuleRegister ==
    /\ phase = "unloaded"
    /\ \E mod_ \in NapiModules :
          LET r == module_register(mod_)
          IN  /\ last' = [op |-> "module_register", mod |-> mod_, res |-> r]
              /\ loader' = loader \o r.handed
              /\ phase' = IF r.tag = "Panic" THEN "panicked" ELSE "called"
    /\ UNCHANGED <<declared, reg_i, exports, created, last_error>>

\* the platform's loader runs the static initializer of napi_module!
LoadNapiModule ==
    /\ phase = "unloaded"
    /\ LET r == load_napi_module(ModuleName)
       IN  /\ last' = [op |-> "load_napi_module", res |-> r]
           /\ loader' = loader \o r.handed
           /\ phase' = IF r.tag = "Ok" THEN "loaded" ELSE "panicked"
    /\ UNCHANGED <<declared, reg_i, exports, created, last_error>>

\* the host calls the registration function with a fresh exports object
RegisterEnter ==
    /\ phase = "loaded"
    /\ phase' = "registering"
    /\ reg_i' = 1
    /\ exports' = <<>>
    /\ last' = [op |-> "register"]
    /\ UNCHANGED <<declared, created, loader, last_error>>

\* register runs the statement of its next export line
RegisterExport ==
    /\ phase = "registering"
    /\ reg_i <= Len(declared)
    /\ \E cans \in HostAnswers :
       \E cq \in QueryStatuses(cans) :
       \E sans \in (IF cans.status = napi_ok THEN HostAnswers ELSE {cans}) :
       \E sq \in QueryStatuses(sans) :
          LET r == RegisterStatement(exports, declared[reg_i], cans, cq, sans, sq)
          IN  /\ last' = [op |-> "register_export", name |-> declared[reg_i],
                          failed |-> (cans.status # napi_ok \/ sans.status # napi_ok),
                          res |-> r.res]
              /\ exports' = r.obj
              /\ created' = created \o r.created
              /\ last_error' = r.slot
              /\ reg_i' = IF r.res.tag = "Ok" THEN reg_i + 1 ELSE reg_i
              /\ phase' = IF r.res.tag = "Ok" THEN phase ELSE "panicked"
    /\ UNCHANGED <<declared, loader>>

\* register reaches its end and returns to the host
RegisterReturn ==
    /\ phase = "registering"
    /\ reg_i > Len(declared)
    /\ phase' = "registered"
    /\ last' = [op |-> "register_return"]
    /\ UNCHANGED <<declared, reg_i, exports, created, loader, last_error>>

\* native code calls one handle primitive
CallPrimitive ==
    /\ phase = "registered"
    /\ last.op = "none"
    /\ \E pc \in PrimitiveCalls, ans \in HostAnswers :
       \E qstatus \in QueryStatuses(ans) :
          LET r == PrimitiveResult(pc[1], pc[2], ans, qstatus)
          IN  /\ last' = [op |-> "primitive", name |-> pc[1], arg |-> pc[2],
                          status |-> ans.status, slot |-> ans.slot,
                          qstatus |-> qstatus, res |-> r]
              /\ last_error' = ans.slot
              /\ phase' = IF r.tag = "Panic" THEN "panicked" ELSE phase
    /\ UNCHANGED <<declared, reg_i, exports, created, loader>>

\* the names native code gives create_function: identifiers, as function!
\* and register! do, or any other string
FunctionNames == ExportNames \cup NamesWithNul

\* the host's answers to napi_create_function: none to choose when the name
\* stops create_function before the call
CreateFunctionAnswers(utf8name) ==
    IF create_function(utf8name, OkAnswer, napi_ok).calls = <<>>
    THEN {OkAnswer}
    ELSE HostAnswers

\* native code calls create_function outside the registration function
CallCreateFunction ==
    /\ phase = "registered"
    /\ last.op = "none"
    /\ \E utf8name \in FunctionNames :
       \E ans \in CreateFunctionAnswers(utf8name) :
       \E qstatus \in QueryStatuses(ans) :
          LET r == create_function(utf8name, ans, qstatus)
          IN  /\ last' = [op |-> "create_function", name |-> utf8name,
                          status |-> ans.status, slot |-> ans.slot,
                          qstatus |-> qstatus, res |-> r]
              /\ last_error' = IF r.calls = <<>> THEN last_error ELSE ans.slot
              /\ phase' = IF r.tag = "Panic" THEN "panicked" ELSE phase
    /\ UNCHANGED <<declared, reg_i, exports, created, loader>>

\* the user-data create_function registers with the host function: the
\* address of its own parameter f, a slot of the frame of create_function
user_data(utf8name) == [closure |-> utf8name, frame |-> "create_function"]

\* the native frames on the stack while the host runs a trampoline: the
\* create_function that registered it returned before the host could call
TrampolineFrames == <<"wrapper">>

\* a pointer into a stack frame refers to a live value while the frame is
\* on the stack
Live(ptr, frames) == \E i \in 1..Len(frames) : frames[i] = ptr.frame

\* the host's answers to the wrapper's napi_get_undefined: any answer when
\* the wrapper gets as far as that call, and none to choose when it does not
UndefinedAnswers(name, args, cbans, garbage) ==
    LET ok == [status |-> napi_ok, slot |-> ClearedErrorInfo]
    IN  IF wrapper(name, ArgTypeOf(name), args, cbans, garbage, ok, napi_ok).tag
              = "Returned"
        THEN HostAnswers
        ELSE {ok}

\* the host invokes one exported function: control enters the trampoline
InvokeFunction ==
    /\ phase = "registered"
    /\ last.op = "none"
    /\ \E i \in 1..Len(exports), args \in ArgLists, cbans \in CbInfoAnswers :
       \E garbage \in (IF cbans.status = napi_ok THEN {Uninitialized} ELSE GarbageValues) :
       \E uans \in UndefinedAnswers(exports[i].value.str, args, cbans, garbage) :
       \E uq \in QueryStatuses(uans) :
          LET name == exports[i].value.str
              r == wrapper(name, ArgTypeOf(name), args, cbans, garbage, uans, uq)
          IN  /\ exports[i].value.type = "function"
              /\ last' = [op |-> "wrapper", name |-> name, args |-> args,
                          cb_status |-> cbans.status,
                          user_data |-> user_data(name),
                          frames |-> TrampolineFrames, res |-> r]
              /\ last_error' = r.slot
              /\ phase' = IF r.tag = "Panic" THEN "panicked" ELSE phase
    /\ UNCHANGED <<declared, reg_i, exports, created, loader>>

\* native code converts the value hello returns into a host value
ConvertHelloReturn ==
    /\ phase = "registered"
    /\ last.op = "none"
    /\ \E h \in HostScripts :
          LET r == HelloReturn_into_napi_value(hello, h)
          IN  /\ last' = [op |-> "into_napi_value", script |-> h,
                          res |-> r.res, object |-> r.object]
              /\ last_error' = r.slot
              /\ phase' = IF r.res.tag = "Panic" THEN "panicked" ELSE phase
    /\ UNCHANGED <<declared, reg_i, exports, created, loader>>

\* the host runs on after a call that came back; its own work clears the slot
HostResumes ==
    /\ phase = "registered"
    /\ last.op # "none"
    /\ last' = NoOp
    /\ last_error' = ClearedErrorInfo
    /\ UNCHANGED <<phase, declared, reg_i, exports, created, loader>>

Next ==
    \/ ModuleRegister
    \/ LoadNapiModule
    \/ RegisterEnter
    \/ RegisterExport
    \/ RegisterReturn
    \/ CallPrimitive
    \/ CallCreateFunction
    \/ InvokeFunction
    \/ ConvertHelloReturn
    \/ HostResumes

Spec == Init /\ [][Next]_vars

(***************************************************************************)
(* The claims.                                                             *)
(***************************************************************************)
Count(seq, x) == Cardinality({i \in 1..Len(seq) : seq[i] = x})
LastErrorQueries(r) == Count(r.calls, "napi_get_last_error_info")

\* the kind that names each status of the enumeration; any other value of a
\* status is a generic failure
KindNames ==
    <<"InvalidArg", "ObjectExpected", "StringExpected", "NameExpected",
      "FunctionExpected", "NumberExpected", "BooleanExpected", "ArrayExpected",
      "GenericFailure", "PendingException", "Cancelled", "StatusLast">>
KindOfStatus(s) ==
    IF s \in 1..Len(KindNames) THEN KindNames[s] ELSE "GenericFailure"
\* the mapping table of the specification: the eleven error kinds, and
\* generic failure for every value outside them
KnownStatuses == napi_invalid_arg..napi_cancelled
ClaimedKind(s) == IF s \in KnownStatuses THEN KindNames[s] ELSE "GenericFailure"

\* the value each primitive's host constructor stores in the out-parameter
ConstructedValue(p, arg) ==
    CASE p = "get_undefined" -> HostValue("undefined", 0, "")
      [] p = "get_null" -> HostValue("null", 0, "")
      [] p = "get_global" -> HostValue("global", 0, "")
      [] p = "get_boolean" -> HostValue("boolean", arg, "")
      [] p = "create_object" -> HostValue("object", 0, "")
      [] p = "create_array" -> HostValue("array", 0, "")
      [] p = "array_with_length" -> HostValue("array", arg, "")
      [] p = "create_number" -> HostValue("number", arg, "")

\* C1: for every status and value passed to napi_either, an ok status gives
\* Ok with the value unchanged and no host call by the bridge; any other
\* status makes the bridge query the last-error record exactly once and
\* return Err with that record's message, engine code and kind.
C1_StatusBridge ==
    last.op = "primitive" =>
        IF last.status = napi_ok
        THEN /\ last.res.tag = "Ok"
             /\ last.res.val = ConstructedValue(last.name, last.arg)
             /\ LastErrorQueries(last.res) = 0
             /\ Len(last.res.calls) = 1
        ELSE /\ LastErrorQueries(last.res) = 1
             /\ last.res.tag = "Err"
             /\ last.res.err.error_message = last.slot.error_message
             /\ last.res.err.engine_error_code = last.slot.engine_error_code
             /\ last.res.err.error_code = KindOfStatus(last.slot.error_code)

\* C2 as claimed: the Error Record of a status S other than ok has the kind
\* of the mapping table for the eleven known statuses and generic failure
\* for every status value outside them.
C2_ClaimedMapping ==
    (last.op = "primitive" /\ last.status # napi_ok /\ last.res.tag = "Err")
        => last.res.err.error_code = ClaimedKind(last.status)

\* C2 amended: the Error Record of a status S other than ok has the kind of
\* the mapping table for the eleven known statuses, the kind StatusLast for
\* the sentinel napi_status_last, and generic failure for every other value;
\* the translation yields a kind for every status value.
C2_Mapping ==
    /\ (last.op = "primitive" /\ last.status # napi_ok /\ last.res.tag = "Err")
          => /\ last.res.err.error_code = KindOfStatus(last.status)
             /\ (last.status \in KnownStatuses
                    => last.res.err.error_code = ClaimedKind(last.status))
             /\ (last.status = napi_status_last
                    => last.res.err.error_code = "StatusLast")
             /\ (last.status > napi_status_last
                    => last.res.err.error_code = "GenericFailure")
    /\ \A s \in Status : NapiErrorType_from(s) \in NapiErrorType

C2_Witness ==
    /\ last.op = "primitive"
    /\ last.status = napi_status_last
    /\ last.res.tag = "Err"
    /\ last.res.err.error_code = "StatusLast"

\* C3: when the host call fails and the last-error query fails too, the
\* bridge hands its caller an error result, having issued the query once.
C3_QueryFailurePropagates ==
    (last.op = "primitive" /\ last.status # napi_ok /\ last.qstatus # napi_ok)
        => /\ last.res.tag = "Err"
           /\ LastErrorQueries(last.res) = 1

\* C4: when the conversion of the argument slice fails, the trampoline does
\* not invoke the closure and comes back to the host with a raised error:
\* it neither panics nor returns an ordinary undefined.
C4_ConversionFailureRaised ==
    (last.op = "wrapper" /\ last.res.conv.tag = "Err")
        => /\ last.res.invoked = <<>>
           /\ last.res.tag = "Returned"
           /\ Count(last.res.calls, "napi_throw_error") = 1

ValidHostValue(v) == v.type \notin {"uninitialized", "none"}

\* C5: every invocation of the trampoline ends by returning a valid host
\* value to the host, whatever failed inside.
C5_AlwaysReturnsHostValue ==
    last.op = "wrapper" =>
        /\ last.res.tag = "Returned"
        /\ ValidHostValue(last.res.val)

\* C6: whenever the conversion of the arguments succeeds and the trampoline
\* returns, it has invoked the registered closure exactly once, with the
\* converted arguments.
C6_ClosureInvokedOnce ==
    (last.op = "wrapper" /\ last.res.conv.tag = "Ok" /\ last.res.tag = "Returned")
        => last.res.invoked =
              <<[closure |-> last.name, args |-> last.res.conv.typed]>>

\* the host value IntoNapiValue makes of what each exported function returns
ReturnValueOf(name, typed) ==
    IF name = "add"
    THEN HostValue("number", add(typed), "")
    ELSE HostValue("object", hello.bar, hello.foo)

\* C7: the host value the trampoline returns is the conversion of what the
\* closure returned: add of 21 returns 42, hello returns {foo: "HELLO",
\* bar: 23}.
C7_ReturnsConvertedValue ==
    (last.op = "wrapper" /\ last.res.tag = "Returned")
        => /\ last.res.val = ReturnValueOf(last.name, last.res.conv.typed)
           /\ (last.name = "add" /\ last.args = <<Number(21)>>
                  => last.res.val = Number(42))

Prefix(s, t) == Len(s) <= Len(t) /\ s = SubSeq(t, 1, Len(s))
IsCallable(v, name) == v.type = "function" /\ v.str = name

\* C8: registration creates one function per export line in declaration
\* order and attaches it under that line's name; once register returns, the
\* exports object holds exactly the declared names, each bound to its
\* function.
C8_RegistersDeclaredExports ==
    /\ Prefix(created, declared)
    /\ Len(created) \in {reg_i - 1, reg_i}
    /\ Range(Keys(exports)) \subseteq {declared[j] : j \in 1..Len(created)}
    /\ \A i \in 1..Len(exports) : IsCallable(exports[i].value, exports[i].name)
    /\ phase = "registered" =>
          /\ created = declared
          /\ Range(Keys(exports)) = Range(declared)

C8_Witness ==
    /\ phase = "registered"
    /\ declared = <<"add", "hello">>
    /\ created = declared
    /\ Keys(exports) = <<"add", "hello">>

\* C9: a failure of creating or attaching an export ends registration on
\* the spot: from then on nothing more is created or attached and register
\* never returns; a register that returned attached every declared name.
C9_RegistrationAborts ==
    /\ [](last.op = "register_export" /\ last.failed => phase = "panicked")
    /\ [](phase = "registered" => Range(Keys(exports)) = Range(declared))
    /\ [][(last.op = "register_export" /\ last.failed)
            => (created' = created /\ exports' = exports
                /\ phase' # "registered")]_vars

C9_Witness ==
    /\ phase = "panicked"
    /\ last.op = "register_export"
    /\ last.failed
    /\ reg_i = 1
    /\ Len(declared) = 2
    /\ created = <<>>
    /\ exports = <<>>

HasNul(s) == 0 \in Range(s)
DescriptorOf(mod_) ==
    [nm_version |-> mod_.version, nm_flags |-> mod_.flags,
     nm_filename |-> [bytes |-> Append(mod_.filename, 0), live |-> FALSE],
     nm_register_func |-> mod_.register_func,
     nm_modname |-> [bytes |-> Append(mod_.modname, 0), live |-> FALSE]]

FirstFailure(h) ==
    IF \A i \in 1..Len(h) : h[i].ans.status = napi_ok
    THEN 0
    ELSE CHOOSE i \in 1..Len(h) :
            /\ h[i].ans.status # napi_ok
            /\ \A j \in 1..(i - 1) : h[j].ans.status = napi_ok

\* the host calls of the conversion of a struct of two fields, in order:
\* object creation, the two field conversions, the two attachments
StructConversionCalls ==
    <<"napi_create_object", "napi_create_string_utf8", "napi_create_number",
      "napi_set_named_property", "napi_set_named_property">>
ObjectHandle == HostValue("object", 0, "")

\* C11: when object creation, a field's conversion or a field's attachment
\* fails, the conversion of HelloReturn returns the Error Record of that
\* first failure, issues no conversion or attachment after it (only the
\* last-error query follows the failing call), and does not return the
\* object handle.
C11_FailFast ==
    (last.op = "into_napi_value" /\ FirstFailure(last.script) # 0) =>
        LET k == FirstFailure(last.script)
        IN  /\ last.res.tag = "Err"
            /\ last.res.err = NapiError_from(last.script[k].ans.slot)
            /\ last.res.calls = SubSeq(StructConversionCalls, 1, k)
                                   \o <<"napi_get_last_error_info">>
            /\ last.res.val # ObjectHandle

\* C12: the conversion of {foo: "HELLO", bar: 23} attaches foo and then bar
\* to a fresh empty object: at every point the keys of the object are a
\* prefix of [foo, bar], and when the conversion returns Ok it returns the
\* handle of an object whose keys are [foo, bar], bound to the string
\* "HELLO" and the number 23.
C12_DeclarationOrder ==
    last.op = "into_napi_value" =>
        /\ Prefix(Keys(last.object), <<"foo", "bar">>)
        /\ last.res.tag = "Ok" =>
              /\ last.res.val = ObjectHandle
              /\ Keys(last.object) = <<"foo", "bar">>
              /\ last.object[1].value = HostValue("string", 0, "HELLO")
              /\ last.object[2].value = HostValue("number", 23, "")

C12_Witness ==
    /\ last.op = "into_napi_value"
    /\ last.res.tag = "Ok"
    /\ Keys(last.object) = <<"foo", "bar">>

\* the host constructor each primitive forwards to
HostConstructor(p) ==
    CASE p = "get_undefined" -> "napi_get_undefined"
      [] p = "get_null" -> "napi_get_null"
      [] p = "get_global" -> "napi_get_global"
      [] p = "get_boolean" -> "napi_get_boolean"
      [] p = "create_object" -> "napi_create_object"
      [] p = "create_array" -> "napi_create_array"
      [] p = "array_with_length" -> "napi_create_array_with_length"
      [] p = "create_number" -> "napi_create_number"
      [] p = "create_function" -> "napi_create_function"

\* the call log of one constructor call answered with status: the call, and
\* after a status that is not ok the last-error query right behind it
OneConstructorCall(ctor, status) ==
    IF status = napi_ok
    THEN <<ctor>>
    ELSE <<ctor, "napi_get_last_error_info">>

Min(a, b) == IF a <= b THEN a ELSE b

\* C14: a call of a registered function with n arguments hands the first
\* min(n, 16) of them to the argument conversion, the arguments past the
\* sixteenth being dropped, and the slice handed over never exceeds the 16
\* slots of the buffer.
C14_HandsMinArgs ==
    last.op = "wrapper" =>
        /\ last.res.conv.tag # "none"
        /\ last.res.handed =
              SubSeq(last.args, 1, Min(Len(last.args), ArgBufCapacity))
        /\ Len(last.res.handed) <= ArgBufCapacity

\* C15: whenever the host runs the trampoline of a function that
\* create_function registered, the user-data of that function refers to the
\* closure given to create_function, and that closure is live.
C15_UserDataLive ==
    last.op = "wrapper" =>
        /\ last.user_data.closure = last.name
        /\ Live(last.user_data, last.frames)

====
